---- MODULE Spec2Model ----
(***************************************************************************)
(* tsd-lite: the assertion extractor (parser.ts) and the diagnostic        *)
(* reconciliation pipeline (tsdLite and isIgnoredDiagnostic).              *)
(*                                                                         *)
(* One call of tsdLite is one behaviour of Spec: the source files on disk  *)
(* are fixed by Init, every external collaborator (configuration           *)
(* resolution, the TypeScript program, the assertion evaluator) answers    *)
(* nondeterministically when it is called, and each statement group of     *)
(* tsdLite is one action.  SpecClassifier applies isIgnoredDiagnostic to   *)
(* an arbitrary diagnostic and an arbitrary expected-error map.            *)
(***************************************************************************)
EXTENDS Integers, Sequences, FiniteSets, TLC

VARIABLES
    disk,                  \* the source files the program will be built from
    pc,                    \* position inside tsdLite
    calls,                 \* collaborators called so far, in call order
    configDiagnostics,     \* tsdLite: configDiagnostics
    program,               \* tsdLite: program (its source files), <<>> before createProgram
    syntacticDiagnostics,  \* tsdLite: syntacticDiagnostics
    semanticDiagnostics,   \* tsdLite: semanticDiagnostics
    assertions,            \* tsdLite: assertions (Map<Assertion, Set<CallExpression>>)
    assertionCount,        \* tsdLite: assertionCount
    evaluated,             \* what handleAssertions returned, as returned
    tsdResults,            \* tsdLite: tsdResults
    expectedErrors,        \* tsdLite: expectedErrors (Map<Location, Node>)
    expectedErrorsLocationsWithFoundDiagnostics,                 \* tsdLite: expectedErrorsLocationsWithFoundDiagnostics
    i,                     \* index of the next semantic diagnostic of the for loop
    outcome,               \* per processed diagnostic, what the loop body did with it
    returned,              \* the object tsdLite returned, <<>> before it returns
    cdiag,                 \* SpecClassifier: the diagnostic argument
    cindex,                \* SpecClassifier: the expectedErrors argument
    cresult                \* SpecClassifier: the value isIgnoredDiagnostic returned

vars == <<disk, pc, calls, configDiagnostics, program, syntacticDiagnostics,
          semanticDiagnostics, assertions, assertionCount, evaluated, tsdResults,
          expectedErrors, expectedErrorsLocationsWithFoundDiagnostics, i, outcome, returned, cdiag, cindex, cresult>>

----------------------------------------------------------------------------
(* Bounds of the model.                                                    *)

\* statements per test file
MaxStmts == 2
\* semantic diagnostics the checker emits in one run
MaxDiags == 2
\* largest start offset of a diagnostic inside the test file
MaxStart == 4
\* configuration / syntactic diagnostics in one run
MaxFatal == 1
\* SpecClassifier: entries of the expected-error map
MaxIndex == 2
\* SpecClassifier: largest offset of a span or of a diagnostic
MaxOffset == 3

BoundedSeq(S, n) == UNION {[1..k -> S] : k \in 0..n}

----------------------------------------------------------------------------
(* File names.  A file name is the sequence of its separators and of the   *)
(* maximal separator-free runs between them, so that the regular           *)
(* expression of tsdLite can be evaluated on it.                           *)

Undefined == <<"undefined">>

TestFile == <<"/", "p", "/", "a.test.ts">>
DepAbsFile == <<"/", "p", "/", "node_modules", "/", "d", "/", "index.d.ts">>
RelTestFile == <<"a.test.ts">>
DepRelFile == <<"node_modules", "/", "d", "/", "index.d.ts">>

\* the test file and a file it pulls in, named from the root or from the
\* current directory
FileNamings ==
    {[test |-> TestFile, dep |-> DepAbsFile], [test |-> RelTestFile, dep |-> DepRelFile]}

Separators == {"/", "\\"}


\* /[/\\]node_modules[/\\]/.test(fileName)
IsInNodeModules(fileName) ==
    \E k \in 1..Len(fileName) :
        /\ k + 2 <= Len(fileName)
        /\ fileName[k] \in Separators
        /\ fileName[k + 1] = "node_modules"
        /\ fileName[k + 2] \in Separators

----------------------------------------------------------------------------
(* Syntax trees.  A node carries its identity (id), its kind, the file it  *)
(* belongs to (getSourceFile().fileName), getStart() and getEnd(), for a   *)
(* call expression the text of its callee (expression.getText()), and its  *)
(* children in forEachChild order.                                         *)

ExpectError == "expectError"

\* Object.values(Assertion)
assertionFnNames ==
    {"expectAssignable", "expectError", "expectNotAssignable", "expectNotType",
     "expectType"}

Callees == {"expectError", "expectType", "foo"}
NoCall == "-"

\* a statement `callee(x)` or `callee(inner(x))`
Shapes == [callee : Callees, inner : {NoCall, "expectError"}]

Node(id, kind, fileName, start, end, expression, children) ==
    [id |-> id, kind |-> kind, fileName |-> fileName, start |-> start,
     end |-> end, expression |-> expression, children |-> children]

Leaf(id, fileName, start, end) ==
    Node(id, "Identifier", fileName, start, end, "", <<>>)

\* the k-th statement of file number f: the call spans [s, s+4], a nested
\* call in its argument spans [s+1, s+3]
Statement(f, fileName, k, shape) ==
    LET s == (k - 1) * 5
        b == f * 100 + k * 10
        argument ==
            IF shape.inner = NoCall
            THEN Leaf(b + 3, fileName, s + 1, s + 3)
            ELSE Node(b + 3, "CallExpression", fileName, s + 1, s + 3, shape.inner,
                      <<Leaf(b + 4, fileName, s + 1, s + 2),
                        Leaf(b + 5, fileName, s + 2, s + 3)>>)
        call ==
            Node(b + 1, "CallExpression", fileName, s, s + 4, shape.callee,
                 <<Leaf(b + 2, fileName, s, s + 1), argument>>)
    IN  Node(b, "ExpressionStatement", fileName, s, s + 4, "", <<call>>)

SourceFile(f, fileName, shapes) ==
    Node(f * 100, "SourceFile", fileName, 0, Len(shapes) * 5, "",
         [k \in 1..Len(shapes) |-> Statement(f, fileName, k, shapes[k])])

\* a dependency's file holds one expectError call
DependencySource(fileName) ==
    SourceFile(2, fileName, <<[callee |-> "expectError", inner |-> NoCall]>>)

\* program.getSourceFiles(): the test file, then the dependency if there is one
Programs ==
    {<<SourceFile(1, TestFile, shapes)>> : shapes \in BoundedSeq(Shapes, MaxStmts)}
    \cup {<<SourceFile(1, naming.test, shapes), DependencySource(naming.dep)>> :
            shapes \in BoundedSeq(Shapes, MaxStmts), naming \in FileNamings}

----------------------------------------------------------------------------
(* parser.ts.  A JavaScript Map is the sequence of its entries in          *)
(* insertion order, a Set the sequence of its members in insertion order.  *)

NodeRef(node) ==
    [id |-> node.id, fileName |-> node.fileName, start |-> node.start, end |-> node.end]

SetHas(set, x) == \E k \in 1..Len(set) : set[k] = x
SetAdd(set, x) == IF SetHas(set, x) THEN set ELSE Append(set, x)

MapHas(map, key) == \E k \in 1..Len(map) : map[k].key = key
MapGet(map, key) == map[CHOOSE k \in 1..Len(map) : map[k].key = key].value
MapSet(map, key, value) ==
    IF MapHas(map, key)
    THEN [k \in 1..Len(map) |->
            IF map[k].key = key THEN [key |-> key, value |-> value] ELSE map[k]]
    ELSE Append(map, [key |-> key, value |-> value])
MapDelete(map, key) == SelectSeq(map, LAMBDA e : e.key # key)

RECURSIVE visit(_, _), forEachChild(_, _, _)

\* visit, not descending into the arguments of a recognized call
visitSkipsArguments(node, map) ==
    LET identifier == node.expression
        nodes == IF MapHas(map, identifier) THEN MapGet(map, identifier) ELSE <<>>
    IN  IF node.kind = "CallExpression" /\ identifier \in assertionFnNames
        THEN MapSet(map, identifier, SetAdd(nodes, NodeRef(node)))
        ELSE forEachChild(node.children, 1, map)

\* parser.ts visit: the assertions map after visiting node and its subtree
visit(node, map) ==
    LET identifier == node.expression
        nodes == IF MapHas(map, identifier) THEN MapGet(map, identifier) ELSE <<>>
        map1 ==
            IF node.kind = "CallExpression" /\ identifier \in assertionFnNames
            THEN MapSet(map, identifier, SetAdd(nodes, NodeRef(node)))
            ELSE map
    IN  forEachChild(node.children, 1, map1)

\* ts.forEachChild(node, visit), from child k on
forEachChild(children, k, map) ==
    IF k > Len(children) THEN map
    ELSE forEachChild(children, k + 1, visit(children[k], map))

RECURSIVE visitSourceFiles(_, _, _)
visitSourceFiles(files, k, map) ==
    IF k > Len(files) THEN map
    ELSE visitSourceFiles(files, k + 1, visit(files[k], map))

RECURSIVE SumSizes(_, _)
SumSizes(map, k) ==
    IF k > Len(map) THEN 0 ELSE Len(map[k].value) + SumSizes(map, k + 1)

extractAssertions(prog) ==
    LET map == visitSourceFiles(prog, 1, <<>>)
    IN  [assertions |-> map, assertionCount |-> SumSizes(map, 1)]

Location(node) ==
    [ref |-> node.id, fileName |-> node.fileName, start |-> node.start, end |-> node.end]

parseErrorAssertionToLocation(map) ==
    IF ~MapHas(map, ExpectError) THEN <<>>
    ELSE LET nodes == MapGet(map, ExpectError)
         IN  [k \in 1..Len(nodes) |-> [key |-> Location(nodes[k]), value |-> nodes[k]]]

----------------------------------------------------------------------------
(* Diagnostics and isIgnoredDiagnostic.                                    *)

\* const ignoredDiagnostics
ignoredDiagnostics == {1308, 1378}

\* const expectErrorDiagnosticCodesToIgnore
expectErrorDiagnosticCodesToIgnore ==
    {2345, 2339, 2540, 2322, 2344, 2314, 2554, 2555, 2575, 2743, 2769, 2741,
     2559, 2684, 2348, 2349, 2350, 2351, 7009, 4113, 4114, 2820}

Diagnostic(code, file, start) == [code |-> code, file |-> file, start |-> start]

isDiagnosticWithLocation(diagnostic) == diagnostic.file # Undefined

NoLocation == [ref |-> 0, fileName |-> Undefined, start |-> 0, end |-> 0]
Ignore == [tag |-> "ignore", location |-> NoLocation]
Preserve == [tag |-> "preserve", location |-> NoLocation]
Matched(location) == [tag |-> "location", location |-> location]

\* the for loop of isIgnoredDiagnostic, from entry k on
RECURSIVE ScanExpectedErrors(_, _, _)

\* the loop with the lower bound of the span included
ScanExpectedErrorsInclusive(diagnostic, errors, k) ==
    IF k > Len(errors) THEN Preserve
    ELSE LET location == errors[k].key
         IN  IF /\ diagnostic.file = location.fileName
                /\ diagnostic.start >= location.start
                /\ diagnostic.start < location.end
             THEN Matched(location)
             ELSE ScanExpectedErrors(diagnostic, errors, k + 1)

\* the loop without the comparison of the file names
ScanExpectedErrorsAnyFile(diagnostic, errors, k) ==
    IF k > Len(errors) THEN Preserve
    ELSE LET location == errors[k].key
         IN  IF /\ diagnostic.start > location.start
                /\ diagnostic.start < location.end
             THEN Matched(location)
             ELSE ScanExpectedErrors(diagnostic, errors, k + 1)

ScanExpectedErrors(diagnostic, errors, k) ==
    IF k > Len(errors) THEN Preserve
    ELSE LET location == errors[k].key
         IN  IF /\ diagnostic.file = location.fileName
                /\ diagnostic.start > location.start
                /\ diagnostic.start < location.end
             THEN Matched(location)
             ELSE ScanExpectedErrors(diagnostic, errors, k + 1)

\* isIgnoredDiagnostic without the test of the suppressible codes
isIgnoredDiagnosticAnyCode(diagnostic, errors) ==
    IF diagnostic.code \in ignoredDiagnostics THEN Ignore
    ELSE ScanExpectedErrors(diagnostic, errors, 1)

isIgnoredDiagnostic(diagnostic, errors) ==
    IF diagnostic.code \in ignoredDiagnostics THEN Ignore
    ELSE IF diagnostic.code \notin expectErrorDiagnosticCodesToIgnore THEN Preserve
    ELSE ScanExpectedErrors(diagnostic, errors, 1)

----------------------------------------------------------------------------
(* What the collaborators can answer.                                      *)

\* a globally ignored code, a suppressible code, a code in neither set
DiagnosticCodes == {1308, 2322, 2304}

ConfigDiagnosticChoices ==
    BoundedSeq({Diagnostic(5083, Undefined, 0), Diagnostic(18003, Undefined, 0)}, MaxFatal)

SyntacticDiagnosticChoices(prog) ==
    BoundedSeq({Diagnostic(1005, prog[1].fileName, 0),
                Diagnostic(1109, prog[1].fileName, 2)}, MaxFatal)

\* where a semantic diagnostic of the program can be reported: nowhere, at
\* an offset of the test file, or inside and after the call of a dependency's
\* file
DiagnosticPlaces(prog) ==
    {[file |-> Undefined, start |-> 0]}
    \cup {[file |-> prog[1].fileName, start |-> s] : s \in 0..MaxStart}
    \cup {[file |-> prog[f].fileName, start |-> s] : f \in 2..Len(prog), s \in {2, 5}}

SemanticDiagnosticChoices(prog) ==
    BoundedSeq({Diagnostic(c, p.file, p.start) :
                    c \in DiagnosticCodes, p \in DiagnosticPlaces(prog)}, MaxDiags)

\* the members of the sets of every kind but expectError, in Map order
RECURSIVE EvaluatedNodes(_, _)
EvaluatedNodes(map, k) ==
    IF k > Len(map) THEN <<>>
    ELSE (IF map[k].key = ExpectError THEN <<>> ELSE map[k].value)
         \o EvaluatedNodes(map, k + 1)

AssertionFailure(node) ==
    [kind |-> "assertion", ref |-> node.id, messageText |-> "Assertion failed."]

\* handleAssertions(typeChecker, assertions): one failure for each assertion
\* of a kind other than expectError that does not hold
handleAssertions(map, failing) ==
    LET nodes == SelectSeq(EvaluatedNodes(map, 1), LAMBDA n : n.id \in failing)
    IN  [k \in 1..Len(nodes) |-> AssertionFailure(nodes[k])]

EvaluatedIds(map) ==
    LET nodes == EvaluatedNodes(map, 1) IN {nodes[k].id : k \in 1..Len(nodes)}

----------------------------------------------------------------------------
(* tsdLite.                                                                *)

DiagnosticResult(k) ==
    [kind |-> "diagnostic", ref |-> k, messageText |-> "Diagnostic."]

MissingError(error) ==
    [kind |-> "missing", ref |-> error.id,
     messageText |-> "Expected an error, but found none."]

Outcome(tag, ref) == [tag |-> tag, ref |-> ref]

\* the gate opening only for more than one diagnostic
HasConfigDiagnosticsOffByOne(diagnostics) == Len(diagnostics) > 1

\* line 107: configDiagnostics.length !== 0
HasConfigDiagnostics(diagnostics) == Len(diagnostics) # 0

\* line 118: syntacticDiagnostics.length !== 0
HasSyntacticDiagnostics(diagnostics) == Len(diagnostics) # 0

\* lines 108-112 and 119-123: the object of the two early returns
EarlyReturn(diagnostics) ==
    [tsdErrors |-> diagnostics, assertionCount |-> 0, tsdResults |-> <<>>]

Init ==
    /\ disk \in Programs
    /\ pc = "ResolveConfig"
    /\ calls = <<>>
    /\ configDiagnostics = <<>>
    /\ program = <<>>
    /\ syntacticDiagnostics = <<>>
    /\ semanticDiagnostics = <<>>
    /\ assertions = <<>>
    /\ assertionCount = 0
    /\ evaluated = <<>>
    /\ tsdResults = <<>>
    /\ expectedErrors = <<>>
    /\ expectedErrorsLocationsWithFoundDiagnostics = <<>>
    /\ i = 1
    /\ outcome = <<>>
    /\ returned = <<>>
    /\ cdiag = Diagnostic(0, Undefined, 0)
    /\ cindex = <<>>
    /\ cresult = Preserve

\* lines 104-113
ResolveConfig ==
    /\ pc = "ResolveConfig"
    /\ \E diagnostics \in ConfigDiagnosticChoices :
        /\ configDiagnostics' = diagnostics
        /\ calls' = Append(calls, "resolveCompilerOptions")
        /\ IF HasConfigDiagnostics(diagnostics)
           THEN /\ returned' = EarlyReturn(diagnostics)
                /\ pc' = "ReturnConfigErrors"
           ELSE /\ pc' = "CheckSyntax"
                /\ UNCHANGED returned
    /\ UNCHANGED <<disk, program, syntacticDiagnostics, semanticDiagnostics, assertions,
                   assertionCount, evaluated, tsdResults, expectedErrors, expectedErrorsLocationsWithFoundDiagnostics, i,
                   outcome, cdiag, cindex, cresult>>

\* lines 115-124
CheckSyntax ==
    /\ pc = "CheckSyntax"
    /\ program' = disk
    /\ \E diagnostics \in SyntacticDiagnosticChoices(disk) :
        /\ syntacticDiagnostics' = diagnostics
        /\ calls' = calls \o <<"createProgram", "getSyntacticDiagnostics">>
        /\ IF HasSyntacticDiagnostics(diagnostics)
           THEN /\ returned' = EarlyReturn(diagnostics)
                /\ pc' = "ReturnSyntaxErrors"
           ELSE /\ pc' = "CheckSemantics"
                /\ UNCHANGED returned
    /\ UNCHANGED <<disk, configDiagnostics, semanticDiagnostics, assertions,
                   assertionCount, evaluated, tsdResults, expectedErrors, expectedErrorsLocationsWithFoundDiagnostics, i,
                   outcome, cdiag, cindex, cresult>>

\* lines 126-128
CheckSemantics ==
    /\ pc = "CheckSemantics"
    /\ semanticDiagnostics' \in SemanticDiagnosticChoices(program)
    /\ calls' = calls \o <<"getSemanticDiagnostics", "getTypeChecker">>
    /\ pc' = "ExtractAssertions"
    /\ UNCHANGED <<disk, configDiagnostics, program, syntacticDiagnostics, assertions,
                   assertionCount, evaluated, tsdResults, expectedErrors, expectedErrorsLocationsWithFoundDiagnostics, i,
                   outcome, returned, cdiag, cindex, cresult>>

\* line 129
ExtractAssertions ==
    /\ pc = "ExtractAssertions"
    /\ LET extracted == extractAssertions(program)
       IN  /\ assertions' = extracted.assertions
           /\ assertionCount' = extracted.assertionCount
    /\ calls' = Append(calls, "extractAssertions")
    /\ pc' = "EvaluateAssertions"
    /\ UNCHANGED <<disk, configDiagnostics, program, syntacticDiagnostics,
                   semanticDiagnostics, evaluated, tsdResults, expectedErrors, expectedErrorsLocationsWithFoundDiagnostics, i,
                   outcome, returned, cdiag, cindex, cresult>>

\* line 131
EvaluateAssertions ==
    /\ pc = "EvaluateAssertions"
    /\ \E failing \in SUBSET EvaluatedIds(assertions) :
        /\ evaluated' = handleAssertions(assertions, failing)
        /\ tsdResults' = handleAssertions(assertions, failing)
    /\ calls' = Append(calls, "handleAssertions")
    /\ pc' = "BuildExpectedErrors"
    /\ UNCHANGED <<disk, configDiagnostics, program, syntacticDiagnostics,
                   semanticDiagnostics, assertions, assertionCount, expectedErrors,
                   expectedErrorsLocationsWithFoundDiagnostics, i, outcome, returned, cdiag, cindex, cresult>>

\* lines 133-134
BuildExpectedErrors ==
    /\ pc = "BuildExpectedErrors"
    /\ expectedErrors' = parseErrorAssertionToLocation(assertions)
    /\ expectedErrorsLocationsWithFoundDiagnostics' = <<>>
    /\ i' = 1
    /\ calls' = Append(calls, "parseErrorAssertionToLocation")
    /\ pc' = "ReconcileDiagnostics"
    /\ UNCHANGED <<disk, configDiagnostics, program, syntacticDiagnostics,
                   semanticDiagnostics, assertions, assertionCount, evaluated,
                   tsdResults, outcome, returned, cdiag, cindex, cresult>>

\* the body of the loop without the test of lines 137-139
ReconcileBodyNoLocationTest(k, diagnostic, errors, results, locations) ==
    IF IsInNodeModules(diagnostic.file)
    THEN [results |-> results, found |-> locations, outcome |-> Outcome("dependency", 0)]
    ELSE LET ignoreDiagnosticResult == isIgnoredDiagnostic(diagnostic, errors)
         IN  IF ignoreDiagnosticResult # Preserve
             THEN IF ignoreDiagnosticResult # Ignore
                  THEN [results |-> results,
                        found |-> Append(locations, ignoreDiagnosticResult.location),
                        outcome |-> Outcome("matched", ignoreDiagnosticResult.location.ref)]
                  ELSE [results |-> results, found |-> locations,
                        outcome |-> Outcome("ignore", 0)]
             ELSE [results |-> Append(results, DiagnosticResult(k)),
                   found |-> locations, outcome |-> Outcome("preserve", 0)]

\* the body of the loop with unshift in place of push at line 160
ReconcileBodyUnshift(k, diagnostic, errors, results, locations) ==
    IF ~isDiagnosticWithLocation(diagnostic)
    THEN [results |-> results, found |-> locations, outcome |-> Outcome("nofile", 0)]
    ELSE IF IsInNodeModules(diagnostic.file)
    THEN [results |-> results, found |-> locations, outcome |-> Outcome("dependency", 0)]
    ELSE LET ignoreDiagnosticResult == isIgnoredDiagnostic(diagnostic, errors)
         IN  IF ignoreDiagnosticResult # Preserve
             THEN IF ignoreDiagnosticResult # Ignore
                  THEN [results |-> results,
                        found |-> Append(locations, ignoreDiagnosticResult.location),
                        outcome |-> Outcome("matched", ignoreDiagnosticResult.location.ref)]
                  ELSE [results |-> results, found |-> locations,
                        outcome |-> Outcome("ignore", 0)]
             ELSE [results |-> <<DiagnosticResult(k)>> \o results,
                   found |-> locations, outcome |-> Outcome("preserve", 0)]

\* lines 137-160, the body of the loop for the diagnostic at position k:
\* the results, the found locations and what was done
ReconcileBody(k, diagnostic, errors, results, locations) ==
    IF ~isDiagnosticWithLocation(diagnostic)
    THEN [results |-> results, found |-> locations, outcome |-> Outcome("nofile", 0)]
    ELSE IF IsInNodeModules(diagnostic.file)
    THEN [results |-> results, found |-> locations, outcome |-> Outcome("dependency", 0)]
    ELSE LET ignoreDiagnosticResult == isIgnoredDiagnostic(diagnostic, errors)
         IN  IF ignoreDiagnosticResult # Preserve
             THEN IF ignoreDiagnosticResult # Ignore
                  THEN [results |-> results,
                        found |-> Append(locations, ignoreDiagnosticResult.location),
                        outcome |-> Outcome("matched", ignoreDiagnosticResult.location.ref)]
                  ELSE [results |-> results, found |-> locations,
                        outcome |-> Outcome("ignore", 0)]
             ELSE [results |-> Append(results, DiagnosticResult(k)),
                   found |-> locations, outcome |-> Outcome("preserve", 0)]

\* lines 136-161, one iteration
ReconcileDiagnostic ==
    /\ pc = "ReconcileDiagnostics"
    /\ i <= Len(semanticDiagnostics)
    /\ LET step == ReconcileBody(i, semanticDiagnostics[i], expectedErrors,
                                 tsdResults, expectedErrorsLocationsWithFoundDiagnostics)
       IN  /\ tsdResults' = step.results
           /\ expectedErrorsLocationsWithFoundDiagnostics' = step.found
           /\ outcome' = Append(outcome, step.outcome)
    /\ i' = i + 1
    /\ UNCHANGED <<disk, pc, calls, configDiagnostics, program, syntacticDiagnostics,
                   semanticDiagnostics, assertions, assertionCount, evaluated,
                   expectedErrors, returned, cdiag, cindex, cresult>>

\* expectedErrors after the deletions of lines 163-165, from position k on
RECURSIVE DeleteFound(_, _, _)

\* the deletion loop stopping after its first iteration
DeleteFoundFirstOnly(errors, locations, k) ==
    IF k > Len(locations) THEN errors ELSE MapDelete(errors, locations[k])

DeleteFound(errors, locations, k) ==
    IF k > Len(locations) THEN errors
    ELSE DeleteFound(MapDelete(errors, locations[k]), locations, k + 1)

\* lines 163-172, once the loop over the diagnostics has ended
FinalizeExpectations ==
    /\ pc = "ReconcileDiagnostics"
    /\ i > Len(semanticDiagnostics)
    /\ LET remaining == DeleteFound(expectedErrors, expectedErrorsLocationsWithFoundDiagnostics, 1)
       IN  /\ expectedErrors' = remaining
           /\ tsdResults' = tsdResults \o
                [k \in 1..Len(remaining) |-> MissingError(remaining[k].value)]
    /\ pc' = "Done"
    /\ UNCHANGED <<disk, calls, configDiagnostics, program, syntacticDiagnostics,
                   semanticDiagnostics, assertions, assertionCount, evaluated, expectedErrorsLocationsWithFoundDiagnostics, i,
                   outcome, returned, cdiag, cindex, cresult>>

\* the final return carrying a tsdErrors field
DoneWithErrorsField ==
    /\ pc = "Done"
    /\ returned' = [tsdErrors |-> syntacticDiagnostics, assertionCount |-> assertionCount,
                    tsdResults |-> tsdResults]
    /\ pc' = "ReturnResults"
    /\ UNCHANGED <<disk, calls, configDiagnostics, program, syntacticDiagnostics,
                   semanticDiagnostics, assertions, assertionCount, evaluated,
                   tsdResults, expectedErrors, expectedErrorsLocationsWithFoundDiagnostics, i, outcome, cdiag, cindex, cresult>>

\* line 174
Done ==
    /\ pc = "Done"
    /\ returned' = [assertionCount |-> assertionCount, tsdResults |-> tsdResults]
    /\ pc' = "ReturnResults"
    /\ UNCHANGED <<disk, calls, configDiagnostics, program, syntacticDiagnostics,
                   semanticDiagnostics, assertions, assertionCount, evaluated,
                   tsdResults, expectedErrors, expectedErrorsLocationsWithFoundDiagnostics, i, outcome, cdiag, cindex, cresult>>

Next ==
    \/ ResolveConfig
    \/ CheckSyntax
    \/ CheckSemantics
    \/ ExtractAssertions
    \/ EvaluateAssertions
    \/ BuildExpectedErrors
    \/ ReconcileDiagnostic
    \/ FinalizeExpectations
    \/ Done

Spec == Init /\ [][Next]_vars

----------------------------------------------------------------------------
(* isIgnoredDiagnostic applied to an arbitrary located diagnostic and an   *)
(* arbitrary expected-error map: spans of the map may overlap, nest,       *)
(* coincide or lie in different files.                                     *)

ClassifierCodes == {1308, 1378, 2322, 7009, 2304}
ClassifierFiles == {TestFile, DepRelFile}

ClassifierSpans ==
    {[fileName |-> f, start |-> s, end |-> e] :
        f \in ClassifierFiles, s \in 0..MaxOffset, e \in 0..MaxOffset}

\* the k-th entry of the map: a Location object of its own, whatever its fields
ClassifierEntry(k, span) ==
    LET node == [id |-> k, fileName |-> span.fileName, start |-> span.start,
                 end |-> span.end]
    IN  [key |-> Location(node), value |-> node]

ClassifierIndexes ==
    {[k \in 1..Len(spans) |-> ClassifierEntry(k, spans[k])] :
        spans \in BoundedSeq({s \in ClassifierSpans : s.start < s.end}, MaxIndex)}

InitClassifier ==
    /\ disk = <<>>
    /\ pc = "Classify"
    /\ calls = <<>>
    /\ configDiagnostics = <<>>
    /\ program = <<>>
    /\ syntacticDiagnostics = <<>>
    /\ semanticDiagnostics = <<>>
    /\ assertions = <<>>
    /\ assertionCount = 0
    /\ evaluated = <<>>
    /\ tsdResults = <<>>
    /\ expectedErrors = <<>>
    /\ expectedErrorsLocationsWithFoundDiagnostics = <<>>
    /\ i = 1
    /\ outcome = <<>>
    /\ returned = <<>>
    /\ cdiag \in {Diagnostic(c, f, s) :
                    c \in ClassifierCodes, f \in ClassifierFiles, s \in 0..MaxOffset}
    /\ cindex \in ClassifierIndexes
    /\ cresult = Preserve

\* one call of isIgnoredDiagnostic(diagnostic, expectedErrors)
Classify ==
    /\ pc = "Classify"
    /\ cresult' = isIgnoredDiagnostic(cdiag, cindex)
    /\ pc' = "Classified"
    /\ UNCHANGED <<disk, calls, configDiagnostics, program, syntacticDiagnostics,
                   semanticDiagnostics, assertions, assertionCount, evaluated,
                   tsdResults, expectedErrors, expectedErrorsLocationsWithFoundDiagnostics, i, outcome, returned, cdiag,
                   cindex>>

NextClassifier == Classify

SpecClassifier == InitClassifier /\ [][NextClassifier]_vars

----------------------------------------------------------------------------
(* Vocabulary of the properties.                                           *)

Range(seq) == {seq[k] : k \in 1..Len(seq)}

Count(seq, x) == Cardinality({k \in 1..Len(seq) : seq[k] = x})

\* the start of the diagnostic lies strictly between the bounds of the span
StrictlyInside(diagnostic, location) ==
    /\ diagnostic.file = location.fileName
    /\ location.start < diagnostic.start
    /\ diagnostic.start < location.end

\* the start of the diagnostic lies before the span or after it
StrictlyOutside(diagnostic, location) ==
    \/ diagnostic.file # location.fileName
    \/ diagnostic.start < location.start
    \/ diagnostic.start > location.end

\* the positions of the map whose span strictly contains the diagnostic
Containing(diagnostic, errors) ==
    {k \in 1..Len(errors) : StrictlyInside(diagnostic, errors[k].key)}

Least(S) == CHOOSE k \in S : \A m \in S : k <= m

\* the tree of a source file as a set of nodes
RECURSIVE Descendants(_)
Descendants(node) ==
    {node} \cup UNION {Descendants(node.children[k]) : k \in 1..Len(node.children)}

\* the recognized call expressions of the files on disk
RecognizedCalls ==
    {n \in UNION {Descendants(disk[f]) : f \in 1..Len(disk)} :
        n.kind = "CallExpression" /\ n.expression \in assertionFnNames}

FileIndex(fileName) == CHOOSE f \in 1..Len(disk) : disk[f].fileName = fileName

\* a is met before b: an earlier file, or the same file and an earlier start,
\* or the same start and a enclosing b
MetBefore(a, b) ==
    \/ FileIndex(a.fileName) < FileIndex(b.fileName)
    \/ /\ a.fileName = b.fileName
       /\ \/ a.start < b.start
          \/ a.start = b.start /\ a.end > b.end

\* the expected-error map as built, before any deletion
BuiltErrors == parseErrorAssertionToLocation(assertions)

AtReturn == pc \in {"ReturnConfigErrors", "ReturnSyntaxErrors", "ReturnResults"}

----------------------------------------------------------------------------
(* C1: whenever configuration resolution reports diagnostics, tsdLite      *)
(* returns exactly {tsdErrors: those diagnostics, assertionCount: 0,       *)
(* tsdResults: []} whatever the files hold, and nothing after              *)
(* configuration resolution is called.                                     *)
C1_ConfigGateIsTerminal ==
    Len(configDiagnostics) # 0 =>
        /\ pc = "ReturnConfigErrors"
        /\ returned = [tsdErrors |-> configDiagnostics, assertionCount |-> 0,
                       tsdResults |-> <<>>]
        /\ calls = <<"resolveCompilerOptions">>
        /\ program = <<>>
        /\ semanticDiagnostics = <<>> /\ assertions = <<>> /\ tsdResults = <<>>

\* a run stopped at the configuration gate although the files hold
\* a nested pair of recognized assertions
C1_Witness ==
    /\ pc = "ReturnConfigErrors"
    /\ Cardinality(RecognizedCalls) >= 2

(* C2: with no configuration diagnostics and some syntactic diagnostics,   *)
(* tsdLite returns exactly {tsdErrors: the syntactic diagnostics,          *)
(* assertionCount: 0, tsdResults: []} and calls nothing after              *)
(* getSyntacticDiagnostics; and a returned object has a tsdErrors field    *)
(* exactly when the run ended at the configuration or the syntax gate.     *)
C2_SyntaxGateAndErrorsField ==
    /\ (Len(configDiagnostics) = 0 /\ Len(syntacticDiagnostics) # 0) =>
            /\ pc = "ReturnSyntaxErrors"
            /\ returned = [tsdErrors |-> syntacticDiagnostics, assertionCount |-> 0,
                           tsdResults |-> <<>>]
            /\ calls = <<"resolveCompilerOptions", "createProgram",
                         "getSyntacticDiagnostics">>
            /\ semanticDiagnostics = <<>> /\ assertions = <<>> /\ tsdResults = <<>>
    /\ AtReturn =>
            /\ ("tsdErrors" \in DOMAIN returned) <=>
                    (pc \in {"ReturnConfigErrors", "ReturnSyntaxErrors"})
            /\ pc = "ReturnConfigErrors" <=> Len(configDiagnostics) # 0
            /\ pc = "ReturnSyntaxErrors" <=>
                    (Len(configDiagnostics) = 0 /\ Len(syntacticDiagnostics) # 0)
            /\ pc = "ReturnResults" =>
                    DOMAIN returned = {"assertionCount", "tsdResults"}

\* a run stopped at the syntax gate although the files hold assertions
C2_Witness ==
    /\ pc = "ReturnSyntaxErrors"
    /\ Cardinality(RecognizedCalls) >= 2

(* C3: isIgnoredDiagnostic returns "ignore" for the codes 1308 and 1378;   *)
(* otherwise "preserve" for a code outside the suppressible set; otherwise *)
(* the first entry, in insertion order, of the same file with              *)
(* start < diagnostic.start < end; otherwise "preserve".  The map is left  *)
(* as it was.                                                              *)
C3_Expected ==
    IF cdiag.code \in {1308, 1378} THEN Ignore
    ELSE IF cdiag.code \notin expectErrorDiagnosticCodesToIgnore THEN Preserve
    ELSE IF Containing(cdiag, cindex) = {} THEN Preserve
    ELSE Matched(cindex[Least(Containing(cdiag, cindex))].key)

C3_ClassifierPolicy ==
    /\ [](pc = "Classified" => cresult = C3_Expected)
    /\ [][cindex' = cindex]_vars

\* the diagnostic lies inside two entries, the second nested in the first:
\* the first one is returned, not the innermost
C3_Witness ==
    /\ pc = "Classified"
    /\ Len(cindex) = 2
    /\ Containing(cdiag, cindex) = {1, 2}
    /\ cindex[1].key.start < cindex[2].key.start
    /\ cresult = Matched(cindex[1].key)

----------------------------------------------------------------------------
(* Vocabulary of the properties of a completed run.                        *)

Suppressible(diagnostic) == diagnostic.code \in expectErrorDiagnosticCodesToIgnore
GloballyIgnored(diagnostic) == diagnostic.code \in {1308, 1378}
Located(diagnostic) == diagnostic.file # Undefined

NotFound(node) ==
    [kind |-> "missing", ref |-> node.id,
     messageText |-> "Expected an error, but found none."]

Surfaced(k) == [kind |-> "diagnostic", ref |-> k, messageText |-> "Diagnostic."]

\* the entry was returned as the match of some diagnostic of the loop
WasMatched(entry) ==
    \E j \in 1..Len(outcome) : outcome[j] = Outcome("matched", entry.key.ref)

(* C4: in a completed run every entry of the expected-error map either was *)
(* returned as the match of at least one diagnostic, and then it is gone   *)
(* from the map and no failure is reported for it, or was matched by none, *)
(* and then the results hold exactly one "Expected an error, but found     *)
(* none." failure for it.                                                  *)
C4_MatchedOrReportedOnce ==
    pc = "ReturnResults" =>
        /\ \A k \in 1..Len(BuiltErrors) :
            LET entry == BuiltErrors[k]
                about == {j \in 1..Len(returned.tsdResults) :
                            /\ returned.tsdResults[j].kind = "missing"
                            /\ returned.tsdResults[j].ref = entry.value.id}
            IN  IF WasMatched(entry)
                THEN /\ ~MapHas(expectedErrors, entry.key)
                     /\ about = {}
                ELSE /\ MapHas(expectedErrors, entry.key)
                     /\ Cardinality(about) = 1
                     /\ \A j \in about : returned.tsdResults[j] = NotFound(entry.value)
        /\ \A j \in 1..Len(returned.tsdResults) :
            returned.tsdResults[j].kind = "missing" =>
                \E k \in 1..Len(BuiltErrors) :
                    BuiltErrors[k].value.id = returned.tsdResults[j].ref

\* one entry matched by two diagnostics, a second entry matched by none
C4_Witness ==
    /\ pc = "ReturnResults"
    /\ Len(expectedErrorsLocationsWithFoundDiagnostics) = 2 /\ expectedErrorsLocationsWithFoundDiagnostics[1] = expectedErrorsLocationsWithFoundDiagnostics[2]
    /\ Len(BuiltErrors) >= 2
    /\ Len(expectedErrors) = Len(BuiltErrors) - 1

(* C5, as stated: in a completed run a diagnostic whose code is outside    *)
(* the suppressible set and whose start lies inside an expect-error span   *)
(* is in the results, and so is the "not found" failure of that assertion. *)
C5_AsStated ==
    pc = "ReturnResults" =>
        \A k \in 1..Len(semanticDiagnostics), m \in 1..Len(BuiltErrors) :
            (/\ ~Suppressible(semanticDiagnostics[k])
             /\ StrictlyInside(semanticDiagnostics[k], BuiltErrors[m].key)) =>
                /\ Surfaced(k) \in Range(returned.tsdResults)
                /\ NotFound(BuiltErrors[m].value) \in Range(returned.tsdResults)

(* C5, amended: a located diagnostic outside node_modules whose code is    *)
(* neither suppressible nor globally ignored is in the results and is      *)
(* never a match, also when its start lies inside an expect-error span;    *)
(* the assertion of that span has its "not found" failure in the results   *)
(* unless some other diagnostic was matched to it.                         *)
C5_UnsuppressibleIsSurfaced ==
    pc = "ReturnResults" =>
        \A k \in 1..Len(semanticDiagnostics) :
            LET diagnostic == semanticDiagnostics[k]
            IN  (/\ Located(diagnostic)
                 /\ ~IsInNodeModules(diagnostic.file)
                 /\ ~Suppressible(diagnostic)
                 /\ ~GloballyIgnored(diagnostic)) =>
                    /\ Count(returned.tsdResults, Surfaced(k)) = 1
                    /\ outcome[k] = Outcome("preserve", 0)
                    /\ \A m \in Containing(diagnostic, BuiltErrors) :
                        \/ WasMatched(BuiltErrors[m])
                        \/ NotFound(BuiltErrors[m].value) \in Range(returned.tsdResults)

\* the only diagnostic has code 2304 and lies inside an expect-error call of
\* the test file: both the diagnostic and the "not found" failure are reported
C5_Witness ==
    /\ pc = "ReturnResults"
    /\ Len(semanticDiagnostics) = 1
    /\ semanticDiagnostics[1].code = 2304
    /\ semanticDiagnostics[1].file = disk[1].fileName
    /\ Containing(semanticDiagnostics[1], BuiltErrors) # {}
    /\ Surfaced(1) \in Range(returned.tsdResults)
    /\ \A m \in Containing(semanticDiagnostics[1], BuiltErrors) :
        NotFound(BuiltErrors[m].value) \in Range(returned.tsdResults)

\* a further expect-error entry, a Location object of its own
ExtraEntries ==
    {[key |-> [ref |-> 999, fileName |-> disk[f].fileName, start |-> s, end |-> e],
      value |-> [id |-> 999, fileName |-> disk[f].fileName, start |-> s, end |-> e]] :
        f \in 1..Len(disk), s \in 0..(MaxStart + 1), e \in 0..(MaxStart + 1)}

InsertAt(seq, position, x) ==
    SubSeq(seq, 1, position - 1) \o <<x>> \o SubSeq(seq, position, Len(seq))

\* the diagnostic at position k is pushed to the results when the loop body
\* runs against the map errors
PushedAgainst(k, errors) ==
    ReconcileBody(k, semanticDiagnostics[k], errors, <<>>, <<>>).results = <<Surfaced(k)>>

\* no further entry whose span does not strictly contain the diagnostic,
\* discovered at any position, keeps the diagnostic at position k out
SurvivesAnyFurtherEntry(k) ==
    \A extra \in ExtraEntries, position \in 1..(Len(BuiltErrors) + 1) :
        (/\ extra.key.start < extra.key.end
         /\ ~StrictlyInside(semanticDiagnostics[k], extra.key)) =>
            PushedAgainst(k, InsertAt(BuiltErrors, position, extra))

(* C6, as stated: in a completed run every located diagnostic that lies    *)
(* strictly outside every expect-error span and whose code is not globally *)
(* ignored is in the results, and a further expect-error assertion that    *)
(* does not contain its start does not remove it.                          *)
C6_AsStated ==
    pc = "ReturnResults" =>
        \A k \in 1..Len(semanticDiagnostics) :
            LET diagnostic == semanticDiagnostics[k]
            IN  (/\ Located(diagnostic)
                 /\ ~GloballyIgnored(diagnostic)
                 /\ \A m \in 1..Len(BuiltErrors) :
                        StrictlyOutside(diagnostic, BuiltErrors[m].key)) =>
                    /\ Surfaced(k) \in Range(returned.tsdResults)
                    /\ SurvivesAnyFurtherEntry(k)

(* C6, amended: in a completed run every located diagnostic outside        *)
(* node_modules whose start is strictly inside no expect-error span and    *)
(* whose code is not globally ignored is in the results, and a further     *)
(* expect-error assertion whose span does not contain its start does not   *)
(* remove it.                                                              *)
C6_OutsideIsSurfaced ==
    pc = "ReturnResults" =>
        \A k \in 1..Len(semanticDiagnostics) :
            LET diagnostic == semanticDiagnostics[k]
            IN  (/\ Located(diagnostic)
                 /\ ~IsInNodeModules(diagnostic.file)
                 /\ ~GloballyIgnored(diagnostic)
                 /\ Containing(diagnostic, BuiltErrors) = {}) =>
                    /\ Count(returned.tsdResults, Surfaced(k)) = 1
                    /\ PushedAgainst(k, BuiltErrors)
                    /\ SurvivesAnyFurtherEntry(k)

\* a suppressible diagnostic of the test file before the only expect-error
\* span of that file is reported, while another one inside the span is not
C6_Witness ==
    /\ pc = "ReturnResults"
    /\ Len(semanticDiagnostics) = 2
    /\ Len(BuiltErrors) >= 1 /\ BuiltErrors[1].key.fileName = disk[1].fileName
    /\ semanticDiagnostics[1].code = 2322 /\ semanticDiagnostics[2].code = 2322
    /\ semanticDiagnostics[1].file = disk[1].fileName
    /\ \A m \in 1..Len(BuiltErrors) :
            StrictlyOutside(semanticDiagnostics[1], BuiltErrors[m].key)
    /\ Containing(semanticDiagnostics[2], BuiltErrors) # {}
    /\ Surfaced(1) \in Range(returned.tsdResults)
    /\ Surfaced(2) \notin Range(returned.tsdResults)

(* C7, as stated: a diagnostic without a file is never matched, and it is  *)
(* either globally ignored or in the results.                              *)
C7_AsStated ==
    pc = "ReturnResults" =>
        \A k \in 1..Len(semanticDiagnostics) :
            ~Located(semanticDiagnostics[k]) =>
                /\ outcome[k].tag # "matched"
                /\ \/ GloballyIgnored(semanticDiagnostics[k])
                   \/ Surfaced(k) \in Range(returned.tsdResults)

(* C7, amended: a diagnostic without a file is never matched to an         *)
(* expect-error assertion and removes no entry of the map; whatever its    *)
(* code and whatever the map holds it is skipped, and it is never in the   *)
(* results.                                                                *)
C7_UnlocatedIsSkipped ==
    \A k \in 1..Len(outcome) :
        ~Located(semanticDiagnostics[k]) =>
            /\ outcome[k] = Outcome("nofile", 0)
            /\ \A j \in 1..Len(expectedErrorsLocationsWithFoundDiagnostics) :
                    expectedErrorsLocationsWithFoundDiagnostics[j].fileName # semanticDiagnostics[k].file
            /\ Surfaced(k) \notin Range(tsdResults)
            /\ AtReturn => Surfaced(k) \notin Range(returned.tsdResults)
            /\ \A extra \in ExtraEntries, position \in 1..(Len(BuiltErrors) + 1) :
                    ReconcileBody(k, semanticDiagnostics[k],
                                  InsertAt(BuiltErrors, position, extra), <<>>, <<>>)
                        = [results |-> <<>>, found |-> <<>>,
                           outcome |-> Outcome("nofile", 0)]

\* a completed run whose diagnostics without a file carry a suppressible code
\* and a code in neither set, while the map holds an entry that stays unmatched
C7_Witness ==
    /\ pc = "ReturnResults"
    /\ Len(semanticDiagnostics) = 2
    /\ ~Located(semanticDiagnostics[1]) /\ semanticDiagnostics[1].code = 2322
    /\ ~Located(semanticDiagnostics[2]) /\ semanticDiagnostics[2].code = 2304
    /\ Len(BuiltErrors) >= 1
    /\ expectedErrors = BuiltErrors
    /\ \A r \in Range(returned.tsdResults) : r.kind # "diagnostic"

\* the file name has a path segment node_modules
HasNodeModulesSegment(fileName) ==
    \E k \in 1..Len(fileName) : fileName[k] = "node_modules"

(* C8: every diagnostic whose file path has a node_modules segment is      *)
(* dropped before classification: it is never in the results and never     *)
(* matches an expect-error entry, whatever its code.                       *)
C8_DependencyDiagnosticsDropped ==
    \A k \in 1..Len(outcome) :
        (/\ Located(semanticDiagnostics[k])
         /\ HasNodeModulesSegment(semanticDiagnostics[k].file)) =>
            /\ outcome[k].tag # "matched"
            /\ Surfaced(k) \notin Range(tsdResults)

\* extractAssertions has returned
Extracted == "extractAssertions" \in Range(calls)

Ids(nodes) == {nodes[k].id : k \in 1..Len(nodes)}

(* C9: extractAssertions returns, for every recognized identifier that is  *)
(* the callee text of some call expression of some source file, the set of *)
(* exactly those call expressions, in the order a pre-order walk of the    *)
(* files meets them, and assertionCount is the number of recognized call   *)
(* expressions: each is counted once, expectError calls and nested calls   *)
(* included, calls of other callees never.                                 *)
C9_ExtractionIsExact ==
    Extracted =>
        /\ assertionCount = Cardinality(RecognizedCalls)
        /\ \A a, b \in 1..Len(assertions) :
                assertions[a].key = assertions[b].key => a = b
        /\ {assertions[k].key : k \in 1..Len(assertions)}
                = {n.expression : n \in RecognizedCalls}
        /\ \A k \in 1..Len(assertions) :
            LET nodes == assertions[k].value
            IN  /\ Ids(nodes) = {n.id : n \in {c \in RecognizedCalls :
                                                c.expression = assertions[k].key}}
                /\ Cardinality(Ids(nodes)) = Len(nodes)
                /\ \A n \in Range(nodes) : \E c \in RecognizedCalls : NodeRef(c) = n
                /\ \A a, b \in 1..Len(nodes) : a < b => MetBefore(nodes[a], nodes[b])

\* a foo call, an expectError call nested in an expectType call, another
\* expectError call in a second file: four calls, three assertions of two kinds
C9_Witness ==
    /\ Extracted
    /\ assertionCount = 3
    /\ Len(assertions) = 2
    /\ assertions[1].key = "expectType" /\ Len(assertions[1].value) = 1
    /\ assertions[2].key = "expectError" /\ Len(assertions[2].value) = 2
    /\ \E n \in UNION {Descendants(disk[f]) : f \in 1..Len(disk)} :
            n.kind = "CallExpression" /\ n.expression = "foo"
    /\ Cardinality({n \in UNION {Descendants(disk[f]) : f \in 1..Len(disk)} :
                        n.kind = "CallExpression"}) = 4

\* the diagnostic at position k is pushed by the policy: located, outside
\* node_modules, not globally ignored, and either not suppressible or
\* strictly inside no span of the map as built
Preserved(k) ==
    LET diagnostic == semanticDiagnostics[k]
    IN  /\ Located(diagnostic)
        /\ ~IsInNodeModules(diagnostic.file)
        /\ ~GloballyIgnored(diagnostic)
        /\ ~Suppressible(diagnostic) \/ Containing(diagnostic, BuiltErrors) = {}

\* the diagnostic at position k is matched to the entry at position m
MatchedTo(k, m) ==
    LET diagnostic == semanticDiagnostics[k]
    IN  /\ Located(diagnostic)
        /\ ~IsInNodeModules(diagnostic.file)
        /\ ~GloballyIgnored(diagnostic)
        /\ Suppressible(diagnostic)
        /\ Containing(diagnostic, BuiltErrors) # {}
        /\ m = Least(Containing(diagnostic, BuiltErrors))

PreservedSegment ==
    LET positions == SelectSeq([k \in 1..Len(semanticDiagnostics) |-> k],
                               LAMBDA k : Preserved(k))
    IN  [j \in 1..Len(positions) |-> Surfaced(positions[j])]

UnmatchedSegment ==
    LET positions == SelectSeq([m \in 1..Len(BuiltErrors) |-> m],
                               LAMBDA m : \A k \in 1..Len(semanticDiagnostics) :
                                            ~MatchedTo(k, m))
    IN  [j \in 1..Len(positions) |-> NotFound(BuiltErrors[positions[j]].value)]

(* C10: in a completed run the results are the evaluator's results as      *)
(* returned, then the preserved diagnostics in the order of emission, then *)
(* one "not found" failure per unmatched entry in the order the expectError*)
(* calls are met (file by file, pre-order in a file); and every located    *)
(* diagnostic outside node_modules is exactly one of ignored, matched, in  *)
(* the results.                                                            *)
C10_ResultsAreThreeSegments ==
    pc = "ReturnResults" =>
        /\ returned.tsdResults = evaluated \o PreservedSegment \o UnmatchedSegment
        /\ Len(returned.tsdResults) =
                Len(evaluated)
                + Cardinality({k \in 1..Len(semanticDiagnostics) : Preserved(k)})
                + Cardinality({m \in 1..Len(BuiltErrors) : ~WasMatched(BuiltErrors[m])})
        /\ returned.assertionCount = assertionCount
        /\ {BuiltErrors[m].value.id : m \in 1..Len(BuiltErrors)}
                = {n.id : n \in {c \in RecognizedCalls : c.expression = "expectError"}}
        /\ \A a, b \in 1..Len(BuiltErrors) :
                a < b => MetBefore(BuiltErrors[a].key, BuiltErrors[b].key)
        /\ \A k \in 1..Len(semanticDiagnostics) :
            LET diagnostic == semanticDiagnostics[k]
            IN  (Located(diagnostic) /\ ~IsInNodeModules(diagnostic.file)) =>
                    Cardinality({c \in {"ignored", "matched", "surfaced"} :
                        \/ c = "ignored" /\ outcome[k].tag = "ignore"
                        \/ c = "matched" /\ outcome[k].tag = "matched"
                        \/ c = "surfaced" /\ Surfaced(k) \in Range(returned.tsdResults)})
                    = 1

\* one evaluator failure, two preserved diagnostics, two unmatched entries of
\* two files
C10_Witness ==
    /\ pc = "ReturnResults"
    /\ Len(evaluated) = 1
    /\ Len(PreservedSegment) = 2
    /\ Len(UnmatchedSegment) = 2
    /\ Len(returned.tsdResults) = 5
    /\ BuiltErrors[1].key.fileName # BuiltErrors[2].key.fileName

====
